---- MODULE Spec2Model ----
(***************************************************************************)
(* Model of the multi-modal RAG agent (src/multimodal_rag_agent.py):       *)
(* MultiModalRAGAgent construction, the embed -> search -> generate        *)
(* pipeline of MultiModalRAGAgent.chat, and the FastAPI routes POST /chat  *)
(* and POST /api/chat that wrap it.                                        *)
(*                                                                         *)
(* Python strings that the code transforms or concatenates are sequences   *)
(* of string atoms (<<" ", "q">>); an exception is the text str(e) gives.  *)
(* Only failures derived from Exception are modelled; an interrupt such as *)
(* KeyboardInterrupt is not a stage failure and is outside the model.      *)
(***************************************************************************)
EXTENDS Integers, Sequences, FiniteSets, TLC

VARIABLES env, agent, req

vars == <<env, agent, req>>

(***************************************************************************)
(* Bounds of the model.                                                    *)
(***************************************************************************)
MaxDocs == 2
ConcMaxDocs == 1

(***************************************************************************)
(* Python values.                                                          *)
(***************************************************************************)
PyNone == [t |-> "None", v |-> << >>]
PyStr(s) == [t |-> "str", v |-> s]
PyObject == [t |-> "object", v |-> << >>]
PyInt(n) == [t |-> "int", n |-> n]
Missing == [t |-> "missing", v |-> << >>]
MissingInt == [t |-> "missing", n |-> 0]
BadInt == [t |-> "object", n |-> 0]

RECURSIVE LStrip(_, _)
LStrip(s, chars) ==
    IF s # << >> /\ Head(s) \in chars THEN LStrip(Tail(s), chars) ELSE s

RECURSIVE RStrip(_, _)
RStrip(s, chars) ==
    IF s # << >> /\ s[Len(s)] \in chars
    THEN RStrip(SubSeq(s, 1, Len(s) - 1), chars)
    ELSE s

Whitespace == {" "}

\* str.strip()
Strip(s) == RStrip(LStrip(s, Whitespace), Whitespace)

LowerChar(c) ==
    CASE c = "E" -> "e"
      [] c = "K" -> "k"
      [] OTHER -> c

\* str.lower()
Lower(s) == [i \in 1..Len(s) |-> LowerChar(s[i])]

\* os.getenv(name, default): the value of the variable, or the default.
GetEnv(e, name, default) == IF e[name].t = "str" THEN e[name] ELSE default

(***************************************************************************)
(* Program constants.                                                      *)
(***************************************************************************)
DefaultTopK == 5
HttpServerError == 500

DefaultAuthMode == <<"e", "n", "t", "r", "a">>
EntraMode == <<"e", "n", "t", "r", "a">>
DefaultEmbeddingModel == "text-embedding-3-large"
DefaultChatModel == "gpt-4o"
DefaultSearchIndex == "multi-modal-rag-index"
SystemPrompt == "You are a professional RAG-based assistant ..."
ApologyPrefix == <<"I encountered an error while processing your request: ">>
IndexErrorText == <<"list index out of range">>
MissingSchemaText == <<"Invalid URL: No scheme supplied">>
SearchPath == <<"/indexes/", "multi-modal-rag-index", "/docs/search?api-version=2023-11-01">>

(***************************************************************************)
(* Environments the process can be started in.                             *)
(***************************************************************************)
EnvNames == {"AZURE_AI_ENDPOINT", "SEARCH_SERVICE_ENDPOINT", "AUTH_MODE",
             "AZURE_AI_API_KEY", "SEARCH_SERVICE_API_KEY"}

EnvValues(name) ==
    CASE name = "AZURE_AI_ENDPOINT" -> {PyNone, PyStr(<<"https://ai">>)}
      [] name = "SEARCH_SERVICE_ENDPOINT" ->
            {PyNone, PyStr(<<" ", "https://search", "/", " ">>)}
      [] name = "AUTH_MODE" ->
            {PyNone, PyStr(<<"E", "n", "t", "r", "a">>), PyStr(<<"k", "e", "y">>)}
      [] name = "AZURE_AI_API_KEY" -> {PyNone, PyStr(<<"aikey">>)}
      [] name = "SEARCH_SERVICE_API_KEY" -> {PyNone, PyStr(<<"searchkey">>)}

Envs == {e \in [EnvNames -> UNION {EnvValues(n) : n \in EnvNames}] :
            \A n \in EnvNames : e[n] \in EnvValues(n)}

\* A fully configured deployment in each authentication mode.
ConcEnvs == {e \in Envs :
                /\ e["AZURE_AI_ENDPOINT"] # PyNone
                /\ e["SEARCH_SERVICE_ENDPOINT"] # PyNone
                /\ e["AUTH_MODE"] # PyNone
                /\ e["AZURE_AI_API_KEY"] # PyNone
                /\ e["SEARCH_SERVICE_API_KEY"] # PyNone}

(***************************************************************************)
(* MultiModalRAGAgent.__init__ and _initialize_clients.                    *)
(***************************************************************************)
Unconstructed == [state |-> "unconstructed"]
ConstructFailed == [state |-> "failed"]

\* The fields __init__ assigns before it calls _initialize_clients.
AgentFields(e) ==
    [state |-> "ready",
     azure_ai_endpoint |-> e["AZURE_AI_ENDPOINT"],
     embedding_model |-> DefaultEmbeddingModel,
     chat_model |-> DefaultChatModel,
     search_endpoint |->
         RStrip(Strip(GetEnv(e, "SEARCH_SERVICE_ENDPOINT", PyStr(<< >>)).v), {"/"}),
     search_index |-> DefaultSearchIndex,
     auth_mode |-> Lower(GetEnv(e, "AUTH_MODE", PyStr(DefaultAuthMode)).v),
     credential |-> FALSE,
     openai_client |-> FALSE,
     system_prompt |-> SystemPrompt]

\* What the AzureOpenAI constructor does with the arguments
\* _initialize_clients gives it: with an endpoint and a credential (a token
\* provider or an API key) it returns a client, without one of them it
\* raises.  The library's own fallback variables are taken as unset.
ClientCtorOutcomes(endpoint, hasCredential) ==
    IF endpoint # PyNone /\ hasCredential THEN {"ok"} ELSE {"raise"}

InitializeClients(a, e, outcome) ==
    IF outcome = "raise"
    THEN ConstructFailed
    ELSE IF a.auth_mode = EntraMode
         THEN [a EXCEPT !.credential = TRUE, !.openai_client = TRUE]
         ELSE [a EXCEPT !.openai_client = TRUE]

HasClientCredential(a, e) ==
    IF a.auth_mode = EntraMode THEN TRUE ELSE e["AZURE_AI_API_KEY"] # PyNone

(***************************************************************************)
(* Replies of the upstream services (inputs of the model).                 *)
(***************************************************************************)
ErrTexts == {<< >>, <<"upstream failure">>}
Vectors == {"v1", "v2"}
Tokens == {"t1", "t2"}

Raise(text) == [kind |-> "raise", text |-> text]

\* embeddings.create: raises, or returns a response whose data list holds
\* zero or one embedding.
EmbedReplies ==
    {Raise(t) : t \in ErrTexts}
        \cup {[kind |-> "ok", data |-> << >>]}
        \cup {[kind |-> "ok", data |-> <<v>>] : v \in Vectors}

\* credential.get_token: raises, or returns a token.
TokenOutcomes ==
    {Raise(t) : t \in ErrTexts} \cup {[kind |-> "ok", token |-> t] : t \in Tokens}

\* Documents of the index as the search service serialises them; a
\* document need not carry every selected field.
Doc1 == ("content_text" :> "c1") @@ ("document_title" :> "Sustainability Report 2023")
            @@ ("@search.score" :> 2)
Doc2 == ("content_text" :> "c2") @@ ("document_title" :> "t2") @@ ("@search.score" :> 1)
Doc3 == ("document_title" :> "t3")
Docs == {Doc1, Doc2, Doc3}

DocSeqs(n) == UNION {[1..k -> Docs] : k \in 0..n}

\* requests.post: raises (connection error), or returns a response with a
\* status and a JSON body that may lack the 'value' key.
SearchReplies(n) ==
    {Raise(t) : t \in ErrTexts}
        \cup {[kind |-> "response", status |-> 503, json |-> << >>]}
        \cup {[kind |-> "response", status |-> 200, json |-> << >>]}
        \cup {[kind |-> "response", status |-> 200, json |-> ("value" :> d)] :
                d \in DocSeqs(n)}

\* chat.completions.create: raises, or returns zero or one choice whose
\* message content is a string or None.
Contents == {PyNone, PyStr(<<"answer">>)}
GenReplies ==
    {Raise(t) : t \in ErrTexts}
        \cup {[kind |-> "ok", choices |-> << >>]}
        \cup {[kind |-> "ok", choices |-> <<c>>] : c \in Contents}

(***************************************************************************)
(* Inputs of the callers.                                                  *)
(***************************************************************************)
Requests == {"r1", "r2"}
Messages == {<<"q">>, <<" ", "What is BMW's approach to circularity?", " ">>}
TopKs == {-1, 0, 1, DefaultTopK}
HttpRoutes == {"/chat", "/api/chat"}

\* JSON bodies of POST /chat: 'message' and 'top_k' present with the
\* declared type, present with another type, or absent.
Bodies ==
    [message : {Missing, PyObject} \cup {PyStr(m) : m \in Messages},
     top_k : {MissingInt, BadInt} \cup {PyInt(k) : k \in TopKs}]

(***************************************************************************)
(* The three stages as pure functions of the upstream reply.  Each gives   *)
(* [ok |-> TRUE, value |-> ..] or [ok |-> FALSE, error |-> str(e)].        *)
(***************************************************************************)
Ok(v) == [ok |-> TRUE, value |-> v]
Err(text) == [ok |-> FALSE, error |-> text]

\* _generate_embedding: response.data[0].embedding
GenerateEmbedding(reply) ==
    IF reply.kind = "raise" THEN Err(reply.text)
    ELSE IF reply.data = << >> THEN Err(IndexErrorText)
    ELSE Ok(reply.data[1])

\* _search_index, the headers: a bearer token fetched from the credential
\* in entra mode, the api-key read from the environment otherwise.
SearchHeaders(a, e, tok) ==
    IF a.auth_mode = EntraMode
    THEN IF tok.kind = "raise" THEN Err(tok.text)
         ELSE Ok(("Content-Type" :> PyStr(<<"application/json">>))
                    @@ ("Authorization" :> PyStr(<<"Bearer ", tok.token>>)))
    ELSE Ok(("Content-Type" :> PyStr(<<"application/json">>))
                @@ ("api-key" :> e["SEARCH_SERVICE_API_KEY"]))

\* requests.post(url, headers=headers, json=body): a header whose value is
\* None is not sent.
SentHeaders(headers) ==
    [h \in {k \in DOMAIN headers : headers[k] # PyNone} |-> headers[h]]

SearchUrl(a) == a.search_endpoint \o SearchPath

\* requests refuses a URL without a scheme before anything is sent.
HasScheme(url) == url # << >> /\ Head(url) \in {"https://search"}

\* dict.get(key, default)
Get(d, key, default) == IF key \in DOMAIN d THEN d[key] ELSE default

SourceOf(doc) ==
    [chunk |-> Get(doc, "content_text", ""),
     title |-> Get(doc, "document_title", "Unknown"),
     score |-> Get(doc, "@search.score", 0)]

\* Variant: documents without a score are dropped from the results.
SearchResultsScored(results) ==
    LET kept == SelectSeq(results, LAMBDA d : "@search.score" \in DOMAIN d)
    IN [i \in 1..Len(kept) |-> SourceOf(kept[i])]

\* the list comprehension over response.json().get('value', [])
SearchResults(results) == [i \in 1..Len(results) |-> SourceOf(results[i])]

\* Variant: an empty result list is treated as a failure of the stage.
SearchIndexNonEmpty(reply) ==
    IF reply.kind = "raise" THEN Err(reply.text)
    ELSE IF reply.status >= 400 THEN Err(<<"503 Server Error">>)
    ELSE IF Get(reply.json, "value", << >>) = << >> THEN Err(<<"no documents">>)
    ELSE Ok(SearchResults(Get(reply.json, "value", << >>)))

\* _search_index from requests.post on: raise_for_status, then the results.
SearchIndex(reply) ==
    IF reply.kind = "raise" THEN Err(reply.text)
    ELSE IF reply.status >= 400 THEN Err(<<"503 Server Error">>)
    ELSE Ok(SearchResults(Get(reply.json, "value", << >>)))

\* _generate_response: response.choices[0].message.content
GenerateResponse(reply) ==
    IF reply.kind = "raise" THEN Err(reply.text)
    ELSE IF reply.choices = << >> THEN Err(IndexErrorText)
    ELSE Ok(reply.choices[1])

\* Variant: the echoed query is trimmed.
ChatSuccessTrimmed(response, context, user_message) ==
    [response |-> response, sources |-> context, query |-> Strip(user_message)]

\* chat, the return of the try block.
ChatSuccess(response, context, user_message) ==
    [response |-> response, sources |-> context, query |-> user_message]

\* Variant: the apology does not quote the error text.
ChatFailureNoText(e, user_message) ==
    [response |-> PyStr(ApologyPrefix),
     sources |-> << >>,
     query |-> user_message,
     error |-> e]

\* chat, the return of the except block; e is str(e).
ChatFailure(e, user_message) ==
    [response |-> PyStr(ApologyPrefix \o e),
     sources |-> << >>,
     query |-> user_message,
     error |-> e]

(***************************************************************************)
(* The HTTP boundary: ChatRequest, ChatResponse and the two routes.        *)
(***************************************************************************)
\* Variant: message is optional.
ValidChatRequestOptionalMessage(body) ==
    /\ body.message.t \in {"str", "missing"}
    /\ body.top_k.t \in {"int", "missing"}

\* ChatRequest(BaseModel): message is required and a string, top_k is an
\* integer when present.
ValidChatRequest(body) ==
    /\ body.message.t = "str"
    /\ body.top_k.t \in {"int", "missing"}

\* ChatRequest.top_k: int = 5
RequestTopK(body) == IF body.top_k.t = "missing" THEN DefaultTopK ELSE body.top_k.n

\* str(HTTPException(status_code=500, detail=detail))
StrHTTPException(detail) == <<"500: ">> \o detail

\* The body of the route function chat(request), after agent.chat returned
\* result: an envelope with an 'error' key raises HTTPException, which the
\* function's own except clause catches and raises again with str(e).
ChatRoute(result) ==
    IF "error" \in DOMAIN result
    THEN [raised |-> TRUE, status |-> HttpServerError,
          detail |-> StrHTTPException(result["error"])]
    ELSE [raised |-> FALSE, value |-> result]

\* ChatResponse(BaseModel): response: str, sources: list, query: str
ValidChatResponse(result) == result.response.t = "str"

\* response_model=ChatResponse keeps the declared fields only.
ChatResponseOf(result) ==
    [response |-> result.response, sources |-> result.sources, query |-> result.query]

HttpError(detail) == [status |-> HttpServerError, detail |-> detail]
HttpJson(body) == [status |-> 200, body |-> body]
HttpRejected == [status |-> 422, detail |-> <<"validation error">>]

\* What the client of a route receives once agent.chat has returned result.
\* POST /chat validates the returned value against ChatResponse; POST
\* /api/chat calls the same function and returns its value as it is.
RouteResponse(route, result) ==
    LET out == ChatRoute(result) IN
    IF out.raised THEN HttpError(out.detail)
    ELSE IF route = "/chat"
         THEN IF ValidChatResponse(out.value)
              THEN HttpJson(ChatResponseOf(out.value))
              ELSE HttpError(<<"Internal Server Error">>)
         ELSE HttpJson(out.value)

(***************************************************************************)
(* State of one request: the locals of chat and of the route handler, the  *)
(* count of calls made on its behalf and the replies it received.          *)
(***************************************************************************)
NoResult == [none |-> TRUE]
NoReply == [kind |-> "none"]
NoCalls == [embed |-> 0, get_token |-> 0, search |-> 0, post |-> 0, generate |-> 0]
NoReplies == [embed |-> NoReply, token |-> NoReply, search |-> NoReply,
              generate |-> NoReply]

Idle ==
    [pc |-> "idle", route |-> "none", body |-> NoResult,
     user_message |-> << >>, top_k |-> 0,
     query_embedding |-> "none", headers |-> << >>, sent |-> NoResult,
     context |-> << >>, prompt |-> NoResult, result |-> NoResult,
     http |-> NoResult, calls |-> NoCalls, replies |-> NoReplies]

Init ==
    /\ env \in Envs
    /\ agent = Unconstructed
    /\ req = [r \in Requests |-> Idle]

InitConc ==
    /\ env \in ConcEnvs
    /\ agent = Unconstructed
    /\ req = [r \in Requests |-> Idle]

(***************************************************************************)
(* Startup: create_agent() builds the one agent of the process.            *)
(***************************************************************************)
CreateAgent(outcome) ==
    /\ agent = Unconstructed
    /\ LET a == AgentFields(env) IN
         /\ outcome \in ClientCtorOutcomes(a.azure_ai_endpoint, HasClientCredential(a, env))
         /\ agent' = InitializeClients(a, env, outcome)
    /\ UNCHANGED <<env, req>>

(***************************************************************************)
(* Requests.                                                               *)
(***************************************************************************)
\* agent.chat(user_message, top_k) called directly (the interactive CLI).
CallChat(r, m, k) ==
    /\ agent.state = "ready"
    /\ req[r].pc = "idle"
    /\ req' = [req EXCEPT ![r] =
                 [Idle EXCEPT !.pc = "embed", !.route = "direct",
                              !.user_message = m, !.top_k = k]]
    /\ UNCHANGED <<env, agent>>

\* POST /chat or POST /api/chat arrives: FastAPI validates the body against
\* ChatRequest before it calls the route function.
HttpReceive(r, route, body) ==
    /\ agent.state = "ready"
    /\ req[r].pc = "idle"
    /\ req' = [req EXCEPT ![r] =
                 IF ValidChatRequest(body)
                 THEN [Idle EXCEPT !.pc = "embed", !.route = route, !.body = body,
                                   !.user_message = body.message.v,
                                   !.top_k = RequestTopK(body)]
                 ELSE [Idle EXCEPT !.pc = "done", !.route = route, !.body = body,
                                   !.http = HttpRejected]]
    /\ UNCHANGED <<env, agent>>

\* chat, step 1: self._generate_embedding(user_message)
Embed(r, reply) ==
    /\ req[r].pc = "embed"
    /\ LET q == req[r]
           res == GenerateEmbedding(reply)
           c == [q EXCEPT !.calls.embed = @ + 1, !.replies.embed = reply]
       IN req' = [req EXCEPT ![r] =
                    IF res.ok
                    THEN [c EXCEPT !.pc = "search", !.query_embedding = res.value]
                    ELSE [c EXCEPT !.pc = "returned",
                                   !.result = ChatFailure(res.error, q.user_message)]]
    /\ UNCHANGED <<env, agent>>

\* chat, step 2, first half: _search_index builds the URL and the headers.
SearchAuth(r, tok) ==
    /\ req[r].pc = "search"
    /\ LET q == req[r]
           res == SearchHeaders(agent, env, tok)
           entra == agent.auth_mode = EntraMode
           c == [q EXCEPT !.calls.search = @ + 1,
                          !.calls.get_token = IF entra THEN @ + 1 ELSE @,
                          !.replies.token = IF entra THEN tok ELSE @]
       IN req' = [req EXCEPT ![r] =
                    IF res.ok
                    THEN [c EXCEPT !.pc = "post", !.headers = res.value]
                    ELSE [c EXCEPT !.pc = "returned",
                                   !.result = ChatFailure(res.error, q.user_message)]]
    /\ UNCHANGED <<env, agent>>

\* chat, step 2, second half: requests.post, raise_for_status, the results.
SearchPost(r, reply) ==
    /\ req[r].pc = "post"
    /\ LET q == req[r]
           url == SearchUrl(agent)
       IN IF ~HasScheme(url)
          THEN req' = [req EXCEPT ![r] =
                         [q EXCEPT !.pc = "returned",
                                   !.result = ChatFailure(MissingSchemaText,
                                                          q.user_message)]]
          ELSE LET res == SearchIndex(reply)
                   c == [q EXCEPT !.calls.post = @ + 1,
                                  !.replies.search = reply,
                                  !.sent = [url |-> url,
                                            headers |-> SentHeaders(q.headers),
                                            vector |-> q.query_embedding,
                                            k |-> q.top_k]]
               IN req' = [req EXCEPT ![r] =
                            IF res.ok
                            THEN [c EXCEPT !.pc = "generate", !.context = res.value]
                            ELSE [c EXCEPT !.pc = "returned",
                                           !.result = ChatFailure(res.error,
                                                                  q.user_message)]]
    /\ UNCHANGED <<env, agent>>

\* Variant: the context is kept on the agent, so a request generates from
\* the context of the search that finished last.
GenerateSharedContext(r, reply) ==
    /\ req[r].pc = "generate"
    /\ LET q == req[r]
           other == CHOOSE o \in Requests : o # r
           ctx == IF req[other].pc = "generate" THEN req[other].context ELSE q.context
           res == GenerateResponse(reply)
           c == [q EXCEPT !.calls.generate = @ + 1, !.replies.generate = reply,
                          !.prompt = [query |-> q.user_message, context |-> ctx],
                          !.pc = "returned"]
       IN req' = [req EXCEPT ![r] =
                    IF res.ok
                    THEN [c EXCEPT !.result =
                              ChatSuccess(res.value, ctx, q.user_message)]
                    ELSE [c EXCEPT !.result =
                              ChatFailure(res.error, q.user_message)]]
    /\ UNCHANGED <<env, agent>>

\* chat, step 3 and the return: self._generate_response(user_message, context)
Generate(r, reply) ==
    /\ req[r].pc = "generate"
    /\ LET q == req[r]
           res == GenerateResponse(reply)
           c == [q EXCEPT !.calls.generate = @ + 1, !.replies.generate = reply,
                          !.prompt = [query |-> q.user_message,
                                      context |-> q.context],
                          !.pc = "returned"]
       IN req' = [req EXCEPT ![r] =
                    IF res.ok
                    THEN [c EXCEPT !.result =
                              ChatSuccess(res.value, q.context, q.user_message)]
                    ELSE [c EXCEPT !.result =
                              ChatFailure(res.error, q.user_message)]]
    /\ UNCHANGED <<env, agent>>

\* The route function and FastAPI turn the envelope into the HTTP response.
Respond(r) ==
    /\ req[r].pc = "returned"
    /\ req[r].route \in HttpRoutes
    /\ req' = [req EXCEPT ![r].pc = "done",
                          ![r].http = RouteResponse(req[r].route, req[r].result)]
    /\ UNCHANGED <<env, agent>>

\* The caller has its answer; the locals of the request are discarded.
Finish(r) ==
    /\ \/ req[r].pc = "done"
       \/ req[r].pc = "returned" /\ req[r].route = "direct"
    /\ req' = [req EXCEPT ![r] = Idle]
    /\ UNCHANGED <<env, agent>>

(***************************************************************************)
(* Spec: one request at a time, over every environment and every reply.    *)
(* SpecConc: two requests interleaved on one fully configured agent.       *)
(***************************************************************************)
Next ==
    \/ \E o \in {"ok", "raise"} : CreateAgent(o)
    \/ \E m \in Messages, k \in TopKs : CallChat("r1", m, k)
    \/ \E route \in HttpRoutes, body \in Bodies : HttpReceive("r1", route, body)
    \/ \E reply \in EmbedReplies : Embed("r1", reply)
    \/ \E tok \in TokenOutcomes : SearchAuth("r1", tok)
    \/ \E reply \in SearchReplies(MaxDocs) : SearchPost("r1", reply)
    \/ \E reply \in GenReplies : Generate("r1", reply)
    \/ Respond("r1")
    \/ Finish("r1")

Spec == Init /\ [][Next]_vars

ConcMessages(r) == IF r = "r1" THEN {<<"q">>} ELSE {<<" ", "q2">>}
ConcBodies(r) == {b \in Bodies : b.message.t = "str" /\ b.message.v \in ConcMessages(r)
                                    /\ b.top_k = PyInt(1)}
ConcRaise == Raise(<<"upstream failure">>)
ConcEmbedReplies == {r \in EmbedReplies : r.kind = "raise" => r = ConcRaise}
ConcTokenOutcomes == {t \in TokenOutcomes : t.kind = "raise" => t = ConcRaise}
ConcSearchReplies == {r \in SearchReplies(ConcMaxDocs) : r.kind = "raise" => r = ConcRaise}
ConcGenReplies == {r \in GenReplies : r.kind = "raise" => r = ConcRaise}

NextConc ==
    \/ \E o \in {"ok", "raise"} : CreateAgent(o)
    \/ \E r \in Requests :
          \/ \E m \in ConcMessages(r) : CallChat(r, m, 1)
          \/ \E body \in ConcBodies(r) : HttpReceive(r, "/chat", body)
          \/ \E reply \in ConcEmbedReplies : Embed(r, reply)
          \/ \E tok \in ConcTokenOutcomes : SearchAuth(r, tok)
          \/ \E reply \in ConcSearchReplies : SearchPost(r, reply)
          \/ \E reply \in ConcGenReplies : Generate(r, reply)
          \/ Respond(r)
          \/ Finish(r)

SpecConc == InitConc /\ [][NextConc]_vars

(***************************************************************************)
(* Vocabulary of the properties: what the upstream services replied to a   *)
(* request, independently of what the agent made of it.                    *)
(***************************************************************************)
HasResult(r) == req[r].result # NoResult

EmbedReturned(q) == q.replies.embed.kind = "ok" /\ q.replies.embed.data # << >>
TokenRaised(q) == q.replies.token.kind = "raise"
SearchReturned(q) == q.replies.search.kind = "response" /\ q.replies.search.status = 200
GenReturned(q) == q.replies.generate.kind = "ok" /\ q.replies.generate.choices # << >>

\* The documents the search service returned, in its order.
ServiceDocs(q) ==
    IF "value" \in DOMAIN q.replies.search.json THEN q.replies.search.json["value"]
    ELSE << >>

\* <<text>> for the text of the failure that ended the pipeline of a
\* request, << >> while no stage has failed.
FailureText(q) ==
    IF q.replies.embed.kind = "raise" THEN <<q.replies.embed.text>>
    ELSE IF q.replies.embed.kind = "ok" /\ q.replies.embed.data = << >>
    THEN <<IndexErrorText>>
    ELSE IF TokenRaised(q) THEN <<q.replies.token.text>>
    ELSE IF q.calls.search = 1 /\ q.pc # "post"
            /\ env["SEARCH_SERVICE_ENDPOINT"] = PyNone
    THEN <<MissingSchemaText>>
    ELSE IF q.replies.search.kind = "raise" THEN <<q.replies.search.text>>
    ELSE IF q.replies.search.kind = "response" /\ q.replies.search.status # 200
    THEN <<<<"503 Server Error">>>>
    ELSE IF q.replies.generate.kind = "raise" THEN <<q.replies.generate.text>>
    ELSE IF q.replies.generate.kind = "ok" /\ q.replies.generate.choices = << >>
    THEN <<IndexErrorText>>
    ELSE << >>

StageFailed(r) == FailureText(req[r]) # << >>

(***************************************************************************)
(* C1 as stated: whenever a stage of chat fails, chat returns an envelope  *)
(* with empty 'sources', an 'error' field that is present, non-empty and   *)
(* equal to the failure's text, and the apologetic 'response' built from   *)
(* that text.                                                              *)
(***************************************************************************)
FailureEnvelope(r) ==
    LET text == FailureText(req[r])[1]
        res == req[r].result
    IN /\ HasResult(r)
       /\ req[r].pc \in {"returned", "done"}
       /\ res.sources = << >>
       /\ "error" \in DOMAIN res
       /\ res["error"] = text
       /\ res.response = PyStr(ApologyPrefix \o text)

C1_FailureEnvelopeNonEmpty ==
    \A r \in Requests :
        StageFailed(r) => (FailureEnvelope(r) /\ req[r].result["error"] # << >>)

(***************************************************************************)
(* C1 amended: whenever a stage of chat fails with an exception derived    *)
(* from Exception, chat returns an envelope with empty 'sources', an       *)
(* 'error' field that is present and equal to the failure's text (empty    *)
(* when the exception has no message), and the apologetic 'response'       *)
(* built from that text; whichever stage failed.                           *)
(***************************************************************************)
C1_FailureEnvelope == \A r \in Requests : StageFailed(r) => FailureEnvelope(r)

\* Generation failed with a message after a search that returned documents.
C1_Witness ==
    /\ StageFailed("r1")
    /\ req["r1"].calls.generate = 1
    /\ Len(req["r1"].context) = 2
    /\ req["r1"].result["error"] = <<"upstream failure">>

(***************************************************************************)
(* C2 as stated: whenever generation was invoked, the 'sources' of the     *)
(* envelope are the list passed to generation, record for record what the  *)
(* search service returned, in its order.                                  *)
(***************************************************************************)
SourcesAreRetrieval(q) ==
    /\ q.result.sources = q.prompt.context
    /\ Len(q.result.sources) = Len(ServiceDocs(q))
    /\ \A i \in 1..Len(ServiceDocs(q)) :
          LET doc == ServiceDocs(q)[i]
              src == q.result.sources[i]
          IN /\ src.chunk = (IF "content_text" \in DOMAIN doc
                             THEN doc["content_text"] ELSE "")
             /\ src.title = (IF "document_title" \in DOMAIN doc
                             THEN doc["document_title"] ELSE "Unknown")
             /\ src.score = (IF "@search.score" \in DOMAIN doc
                             THEN doc["@search.score"] ELSE 0)

C2_SourcesWheneverGenerationInvoked ==
    \A r \in Requests :
        (HasResult(r) /\ req[r].calls.generate = 1) => SourcesAreRetrieval(req[r])

(***************************************************************************)
(* C2 amended: whenever generation was invoked and returned successfully,  *)
(* the 'sources' of the envelope are the list passed to generation, record *)
(* for record what the search service returned, in its order.              *)
(***************************************************************************)
C2_SourcesWhenGenerationReturned ==
    \A r \in Requests :
        (HasResult(r) /\ req[r].calls.generate = 1 /\ GenReturned(req[r]))
            => SourcesAreRetrieval(req[r])

\* A successful request whose two sources are in ascending score order, as
\* the service returned them, one of them completed with defaults.
C2_Witness ==
    /\ HasResult("r1") /\ GenReturned(req["r1"])
    /\ Len(req["r1"].result.sources) = 2
    /\ req["r1"].result.sources[1].score = 0
    /\ req["r1"].result.sources[1].chunk = ""
    /\ req["r1"].result.sources[2].score = 2

(***************************************************************************)
(* C3: for every finished chat request the number of 'sources' is at least *)
(* 0 and at most the top_k the caller requested.                           *)
(***************************************************************************)
C3_SourcesAtMostTopK ==
    \A r \in Requests :
        HasResult(r) =>
            /\ Len(req[r].result.sources) >= 0
            /\ Len(req[r].result.sources) <= req[r].top_k

(***************************************************************************)
(* C4 as stated: within one request each stage runs at most once, in the   *)
(* order embed, search, generate; search is invoked iff embedding          *)
(* returned, generation iff search returned; and when search returns zero  *)
(* documents generation is invoked with an empty context and the request   *)
(* ends with a success envelope (empty 'sources', no 'error').             *)
(***************************************************************************)
StrictSequence(q) ==
    /\ q.calls.embed <= 1 /\ q.calls.search <= 1 /\ q.calls.post <= 1
    /\ q.calls.generate <= 1 /\ q.calls.get_token <= 1
    /\ q.calls.search = 1 => (q.calls.embed = 1 /\ EmbedReturned(q))
    /\ q.calls.generate = 1 => (q.calls.search = 1 /\ SearchReturned(q))
    /\ q.result # NoResult =>
          /\ q.calls.embed = 1
          /\ q.calls.search = 1 <=> EmbedReturned(q)
          /\ q.calls.generate = 1 <=> SearchReturned(q)

ZeroDocuments(q) ==
    q.result # NoResult /\ SearchReturned(q) /\ ServiceDocs(q) = << >>

EmptyContextSuccess(q) ==
    /\ q.calls.generate = 1
    /\ q.prompt.context = << >>
    /\ q.result.sources = << >>
    /\ "error" \notin DOMAIN q.result

C4_StrictSequenceAlwaysSuccess ==
    \A r \in Requests :
        /\ StrictSequence(req[r])
        /\ ZeroDocuments(req[r]) => EmptyContextSuccess(req[r])

(***************************************************************************)
(* C4 amended: as C4, except that a request whose search returned zero     *)
(* documents ends with a success envelope only if the generation that is   *)
(* then invoked with the empty context itself returns successfully.        *)
(***************************************************************************)
C4_StrictSequence ==
    \A r \in Requests :
        /\ StrictSequence(req[r])
        /\ ZeroDocuments(req[r]) =>
              /\ req[r].calls.generate = 1
              /\ req[r].prompt.context = << >>
              /\ GenReturned(req[r]) => EmptyContextSuccess(req[r])

\* Search answered 200 without a 'value' list and generation still ran.
C4_Witness ==
    /\ ZeroDocuments(req["r1"])
    /\ req["r1"].replies.search.json = << >>
    /\ GenReturned(req["r1"])
    /\ EmptyContextSuccess(req["r1"])

(***************************************************************************)
(* C5: a request to POST /chat or POST /api/chat that reaches the pipeline *)
(* ends either with a success response carrying 'response', 'sources' and  *)
(* 'query' of a fully successful run, or with a 500 response whose body    *)
(* carries the failing stage's error text; and both routes give the same   *)
(* outcome for the same request and upstream replies.                      *)
(***************************************************************************)
Carries(detail, text) ==
    \E i \in 1..(Len(detail) + 1) : SubSeq(detail, i, i + Len(text) - 1) = text

C5_NoPartialSuccess ==
    \A r \in Requests :
        LET q == req[r] IN
        (q.pc = "done" /\ HasResult(r)) =>
            /\ \/ /\ q.http.status = 200
                  /\ ~StageFailed(r)
                  /\ DOMAIN q.http.body = {"response", "sources", "query"}
                  /\ q.http.body = ChatResponseOf(q.result)
               \/ /\ q.http.status = HttpServerError
                  /\ StageFailed(r)
                  /\ Carries(q.http.detail, FailureText(q)[1])
            /\ RouteResponse("/chat", q.result) = RouteResponse("/api/chat", q.result)

(***************************************************************************)
(* C6: a request to POST /chat or POST /api/chat with a malformed body is  *)
(* rejected before the pipeline runs: the embedding, search and            *)
(* chat-completion services are each called zero times for it.             *)
(***************************************************************************)
Malformed(body) ==
    \/ body.message.t # "str"
    \/ body.top_k.t \notin {"int", "missing"}

C6_MalformedBodyRejected ==
    \A r \in Requests :
        LET q == req[r] IN
        (q.route \in HttpRoutes /\ Malformed(q.body)) =>
            /\ q.calls = NoCalls
            /\ q.replies = NoReplies
            /\ q.result = NoResult
            /\ q.pc = "done"
            /\ q.http = HttpRejected

\* A body without 'message' was answered with 422.
C6_Witness ==
    /\ req["r1"].route = "/api/chat"
    /\ req["r1"].body.message = Missing
    /\ req["r1"].pc = "done"
    /\ req["r1"].http = HttpRejected

(***************************************************************************)
(* C7: an agent with a missing endpoint or credential is never             *)
(* constructed, so no chat request is processed with missing               *)
(* configuration.                                                          *)
(***************************************************************************)
KeyMode(e) == e["AUTH_MODE"] = PyStr(<<"k", "e", "y">>)

Configured(e) ==
    /\ e["AZURE_AI_ENDPOINT"] # PyNone
    /\ e["SEARCH_SERVICE_ENDPOINT"] # PyNone
    /\ KeyMode(e) => /\ e["AZURE_AI_API_KEY"] # PyNone
                     /\ e["SEARCH_SERVICE_API_KEY"] # PyNone

C7_MissingConfigFailsAtStartup ==
    /\ agent.state = "ready" => Configured(env)
    /\ \A r \in Requests : req[r].pc # "idle" => Configured(env)

(***************************************************************************)
(* C8: under every interleaving of the requests served on one agent, each  *)
(* request's envelope has the 'query' of its own input and the 'sources'   *)
(* and 'response' that its own embedding, search and generation replies    *)
(* determine, and no step of a request changes the agent's state.          *)
(***************************************************************************)
OwnSources(q) ==
    [i \in 1..Len(ServiceDocs(q)) |->
        LET doc == ServiceDocs(q)[i] IN
        [chunk |-> IF "content_text" \in DOMAIN doc THEN doc["content_text"] ELSE "",
         title |-> IF "document_title" \in DOMAIN doc THEN doc["document_title"]
                   ELSE "Unknown",
         score |-> IF "@search.score" \in DOMAIN doc THEN doc["@search.score"] ELSE 0]]

\* The envelope the request would get if it ran alone with the same replies.
OwnEnvelope(r) ==
    LET q == req[r]
        input == IF q.route \in HttpRoutes THEN q.body.message.v ELSE q.user_message
    IN IF StageFailed(r)
       THEN [response |-> PyStr(ApologyPrefix \o FailureText(q)[1]),
             sources |-> << >>,
             query |-> input,
             error |-> FailureText(q)[1]]
       ELSE [response |-> q.replies.generate.choices[1],
             sources |-> OwnSources(q),
             query |-> input]

OwnSearchRequest(q) ==
    q.sent # NoResult =>
        /\ q.sent.vector = q.replies.embed.data[1]
        /\ q.sent.k = q.top_k

RequestsIsolated ==
    \A r \in Requests :
        /\ OwnSearchRequest(req[r])
        /\ HasResult(r) => /\ req[r].result = OwnEnvelope(r)
                           /\ req[r].result.query \in ConcMessages(r)

AgentStateKept == agent.state = "ready" => (agent' = agent /\ env' = env)

C8_RequestsDoNotInteract == []RequestsIsolated /\ [][AgentStateKept]_vars

\* Both requests hold an envelope at once: one succeeded with a source,
\* the other failed in its own generation after its own search.
C8_Witness ==
    /\ HasResult("r1") /\ ~StageFailed("r1")
    /\ Len(req["r1"].result.sources) = 1
    /\ HasResult("r2") /\ StageFailed("r2")
    /\ req["r2"].calls.generate = 1
    /\ req["r2"].context # req["r1"].context

(***************************************************************************)
(* C9: every search request carries exactly one of the 'Authorization'     *)
(* and 'api-key' headers; the bearer header exactly when AUTH_MODE read at *)
(* construction is 'entra' in any letter case (or unset), with a token     *)
(* fetched in that very search call.                                       *)
(***************************************************************************)
EntraConfigured(e) ==
    e["AUTH_MODE"] \in {PyNone, PyStr(<<"E", "n", "t", "r", "a">>)}

C9_ExactlyOneAuthHeader ==
    \A r \in Requests :
        LET q == req[r] IN
        q.sent # NoResult =>
            LET h == q.sent.headers IN
            /\ ("Authorization" \in DOMAIN h) # ("api-key" \in DOMAIN h)
            /\ ("Authorization" \in DOMAIN h) <=> EntraConfigured(env)
            /\ EntraConfigured(env) =>
                  /\ q.calls.get_token = 1
                  /\ h["Authorization"] = PyStr(<<"Bearer ", q.replies.token.token>>)
            /\ ~EntraConfigured(env) => q.calls.get_token = 0

(***************************************************************************)
(* C10: in every envelope chat returns, on the success path and on the     *)
(* failure path, 'query' is the user_message the caller passed, unchanged. *)
(***************************************************************************)
C10_QueryEchoesInput ==
    \A r \in Requests :
        HasResult(r) =>
            /\ req[r].result.query = req[r].user_message
            /\ req[r].route \in HttpRoutes =>
                  req[r].result.query = req[r].body.message.v

\* A success envelope for a message with leading and trailing blanks.
C10_Witness ==
    /\ HasResult("r1") /\ ~StageFailed("r1")
    /\ Len(req["r1"].result.query) = 3
    /\ req["r1"].result.query[1] = " "
    /\ req["r1"].result.query[3] = " "

====
